---- MODULE Spec2Model ----
(***************************************************************************)
(* A model of DiscordGolfBot: the search cache (search.py), the guild      *)
(* configuration store (backend.py) and the command layer with its         *)
(* periodic notifications task (bot.py).                                   *)
(*                                                                         *)
(* Python's None is the empty sequence, a present value x is <<x>>.        *)
(* Time is counted in days.                                                *)
(***************************************************************************)
EXTENDS Integers, Sequences, FiniteSets, TLC

VARIABLES
    now,        \* datetime.datetime.now(), in days
    cache,      \* cache[kind][key]: the backing dicts of TextSearchCache / ImageSearchCache
    store,      \* store[g]: the guildConfigs document of guild g in the document store
    last,       \* the last call: its operation, arguments, outcome and return value
    sent,       \* the messages the notifications task has sent to channels
    npc,        \* the position of the notifications task
    nqueue,     \* the guild configs the running notifications task has yet to visit
    deps,       \* which optional collaborators Commands was built with (backend, search_engine)
    addSent,    \* history: the <<guild, title>> pairs add_sent_notification has returned for
    loop        \* the event loop: the coroutine that runs, and where each handler is

vars == <<now, cache, store, last, sent, npc, nqueue, deps, addSent, loop>>

None == <<>>
EmptyDict == [k \in {} |-> None]
Some(x) == <<x>>
Range(s) == {s[i] : i \in 1..Len(s)}

(***************************************************************************)
(* Bounds                                                                  *)
(***************************************************************************)
\* Time runs to MaxTime, in steps of TickSteps days: entries of the import
\* time are then less than, exactly and more than CACHE_AGE_DAYS old.
MaxTime == 15
TickSteps == {5}
\* The timestamps a caller of add_to_cache gives an entry of its own making.
TsInputs == {-20, 5}

(***************************************************************************)
(* search.py                                                               *)
(***************************************************************************)
Kinds == {"text", "image"}
Keys == {"q1", "q2"}
\* What the remote search can answer: the items of the response.
RemoteItems == {<<>>, <<"a">>, <<"b">>}

\* The moment search.py is imported: `ts: datetime.datetime = datetime.datetime.now()`
\* is evaluated once, when the class body runs.
ImportTs == 0

CACHE_AGE_DAYS == 10

\* CachedTextSearch / CachedImageSearch
CachedSearch(ts, items) == [ts |-> ts, response |-> items]

\* CachedTextSearch(response=...) with no ts given: the class-level default.
CachedSearchDefault(items, t) == CachedSearch(ImportTs, items)

\* `result.ts < current_ts - datetime.timedelta(days=self.CACHE_AGE_DAYS)`
\* (ExpiredAtMaxAge: the faulty variant that expires an entry at the max age.)
ExpiredAtMaxAge(entry, t) == entry.ts <= t - CACHE_AGE_DAYS
Expired(entry, t) == entry.ts < t - CACHE_AGE_DAYS

\* SearchCache.get_from_cache at time t: the value returned (None or the
\* entry) and the backing dict afterwards.
\* (GetFromCacheEvicting: the faulty variant that deletes an expired entry.)
GetFromCacheEvicting(c, key, t) ==
    IF key \notin DOMAIN c THEN [cache |-> c, ret |-> None]
    ELSE IF Expired(c[key], t)
         THEN [cache |-> [k \in DOMAIN c \ {key} |-> c[k]], ret |-> None]
         ELSE [cache |-> c, ret |-> Some(c[key])]
GetFromCache(c, key, t) ==
    IF key \notin DOMAIN c THEN [cache |-> c, ret |-> None]
    ELSE IF Expired(c[key], t) THEN [cache |-> c, ret |-> None]
    ELSE [cache |-> c, ret |-> Some(c[key])]

\* ImageSearchCache.add_to_cache / TextSearchCache.add_to_cache: self.cache[key] = entry
AddToCache(c, key, entry) == [k \in DOMAIN c \cup {key} |-> IF k = key THEN entry ELSE c[k]]

\* Search.get_first_web_result / Search.get_first_image at time t, given the
\* items the remote search answers when asked: the cache of that kind
\* afterwards, whether a request was made, the outcome and the value returned.
GetFirst(c, key, t, remote) ==
    LET looked == GetFromCache(c, key, t)
        cached == looked.ret IN
    IF cached # None
    THEN IF cached[1].response = <<>>
         THEN [cache |-> looked.cache, fetched |-> FALSE, outcome |-> "error", ret |-> None]  \* items[0]: IndexError
         ELSE [cache |-> looked.cache, fetched |-> FALSE, outcome |-> "ok",
               ret |-> Some(cached[1].response[1])]
    ELSE IF remote = <<>>
         THEN [cache |-> looked.cache, fetched |-> TRUE, outcome |-> "ok", ret |-> None]
         ELSE [cache |-> AddToCache(looked.cache, key, CachedSearchDefault(remote, t)),
               fetched |-> TRUE, outcome |-> "ok", ret |-> Some(remote[1])]

Call(op, kind, key, outcome, ret, fetched) ==
    [op |-> op, kind |-> kind, key |-> key, outcome |-> outcome, ret |-> ret, fetched |-> fetched]

\* A caller of get_from_cache (test_cache does so directly).
CacheLookup(kind, key) ==
    LET r == GetFromCache(cache[kind], key, now) IN
    /\ cache' = [cache EXCEPT ![kind] = r.cache]
    /\ last' = Call("get_from_cache", kind, key, "ok", r.ret, FALSE)
    /\ UNCHANGED <<now, store, sent, npc, nqueue, deps, loop, addSent>>

\* A caller of add_to_cache with an entry of its own making, as test_cache
\* (whose responses have no items): the default ts, or one given explicitly.
CacheStore(kind, key, items, ts) ==
    /\ cache' = [cache EXCEPT ![kind] = AddToCache(@, key, CachedSearch(ts, items))]
    /\ last' = Call("add_to_cache", kind, key, "ok", None, FALSE)
    /\ UNCHANGED <<now, store, sent, npc, nqueue, deps, loop, addSent>>

SearchFirst(kind, key, remote) ==
    LET r == GetFirst(cache[kind], key, now, remote) IN
    /\ cache' = [cache EXCEPT ![kind] = r.cache]
    /\ last' = Call(IF kind = "text" THEN "get_first_web_result" ELSE "get_first_image",
                    kind, key, r.outcome, r.ret, r.fetched)
    /\ UNCHANGED <<now, store, sent, npc, nqueue, deps, loop, addSent>>

\* Time passes between calls; no call is then the one that has just returned.
Tick ==
    /\ now < MaxTime
    /\ \E d \in TickSteps : now' = now + d
    /\ last' = [op |-> "none", outcome |-> "ok", ret |-> None]
    /\ UNCHANGED <<cache, store, sent, npc, nqueue, deps, loop, addSent>>

(***************************************************************************)
(* backend.py                                                              *)
(***************************************************************************)
\* Guild ids, channel ids, player names as a user types them, and the titles
\* of notifications.  A name is the sequence of its characters.
GuildIds == {1, 2}
Channels == {"c1", "c2"}
TrackNames == {<<"R", "o">>, <<"r", "o">>}
WinnerTitle(winner, event, margin) == [winner |-> winner, event |-> event, margin |-> margin]
Titles == {WinnerTitle(<<"R", "o">>, "Open", 6), WinnerTitle(<<"T", "i">>, "Masters", 3)}

\* Which call to the document store raises, if the operation gets to it: the
\* read of add_or_get_guild_config, or the write of the updated document.  (A
\* raising write of a new document leaves what a raising read leaves: nothing
\* written, the exception propagating.)
Fails == {"none", "get", "update"}

\* GuildConfig(guild_id=guild_id, track_players=[])
GuildConfig(g) ==
    [guild_id |-> g, track_players |-> <<>>, notification_channel |-> None,
     notifications_enabled |-> FALSE, event_notifications |-> <<>>]

Raised(st) == [store |-> st, outcome |-> "error", ret |-> None]
Returned(st, ret) == [store |-> st, outcome |-> "ok", ret |-> ret]

\* BackendStore.add_or_get_guild_config
\* (AddOrGetAlwaysNew: the faulty variant without the `if not data` test.)
AddOrGetAlwaysNew(st, g, fail) ==
    IF fail = "get" THEN Raised(st)
    ELSE Returned([st EXCEPT ![g] = Some(GuildConfig(g))], Some(GuildConfig(g)))
AddOrGetGuildConfig(st, g, fail) ==
    IF fail = "get" THEN Raised(st)
    ELSE IF st[g] = None
         THEN Returned([st EXCEPT ![g] = Some(GuildConfig(g))], Some(GuildConfig(g)))
         ELSE Returned(st, st[g])

\* BackendStore.add_tracked_player
\* (AddTrackedPlayerNoCheck: the faulty variant without the `not in` test.)
AddTrackedPlayerNoCheck(st, g, name, fail) ==
    LET r == AddOrGetGuildConfig(st, g, fail) IN
    IF r.outcome = "error" THEN r
    ELSE LET cfg == [r.ret[1] EXCEPT !.track_players = Append(@, name)] IN
         IF fail = "update" THEN Raised(r.store)
         ELSE Returned([r.store EXCEPT ![g] = Some(cfg)], Some(cfg))
AddTrackedPlayer(st, g, name, fail) ==
    LET r == AddOrGetGuildConfig(st, g, fail) IN
    IF r.outcome = "error" THEN r
    ELSE IF name \notin Range(r.ret[1].track_players)
         THEN LET cfg == [r.ret[1] EXCEPT !.track_players = Append(@, name)] IN
              IF fail = "update" THEN Raised(r.store)
              ELSE Returned([r.store EXCEPT ![g] = Some(cfg)], Some(cfg))
         ELSE r

\* BackendStore.enable_notifications
\* (EnableNotificationsFromDefaults: the faulty variant that writes a new
\* GuildConfig instead of the one read.)
EnableNotificationsFromDefaults(st, g, ch, fail) ==
    LET r == AddOrGetGuildConfig(st, g, fail) IN
    IF r.outcome = "error" THEN r
    ELSE LET cfg == [GuildConfig(g) EXCEPT !.notifications_enabled = TRUE,
                                           !.notification_channel = Some(ch)] IN
         IF fail = "update" THEN Raised(r.store)
         ELSE Returned([r.store EXCEPT ![g] = Some(cfg)], Some(cfg))
EnableNotifications(st, g, ch, fail) ==
    LET r == AddOrGetGuildConfig(st, g, fail) IN
    IF r.outcome = "error" THEN r
    ELSE LET cfg == [r.ret[1] EXCEPT !.notifications_enabled = TRUE,
                                     !.notification_channel = Some(ch)] IN
         IF fail = "update" THEN Raised(r.store)
         ELSE Returned([r.store EXCEPT ![g] = Some(cfg)], Some(cfg))

\* BackendStore.get_notification: True, or None when the title is not recorded.
\* (GetNotificationAnyGuild: the faulty variant that looks in every guild.)
GetNotificationAnyGuild(st, g, title, fail) ==
    LET r == AddOrGetGuildConfig(st, g, fail) IN
    IF r.outcome = "error" THEN r
    ELSE IF \E h \in DOMAIN r.store :
                r.store[h] # None /\ title \in Range(r.store[h][1].event_notifications)
         THEN Returned(r.store, Some(TRUE))
         ELSE Returned(r.store, None)
GetNotification(st, g, title, fail) ==
    LET r == AddOrGetGuildConfig(st, g, fail) IN
    IF r.outcome = "error" THEN r
    ELSE IF title \in Range(r.ret[1].event_notifications)
         THEN Returned(r.store, Some(TRUE))
         ELSE Returned(r.store, None)

\* BackendStore.add_sent_notification
AddSentNotification(st, g, title, fail) ==
    LET r == AddOrGetGuildConfig(st, g, fail) IN
    IF r.outcome = "error" THEN r
    ELSE IF title \notin Range(r.ret[1].event_notifications)
         THEN LET cfg == [r.ret[1] EXCEPT !.event_notifications = Append(@, title)] IN
              IF fail = "update" THEN Raised(r.store)
              ELSE Returned([r.store EXCEPT ![g] = Some(cfg)], None)
         ELSE Returned(r.store, None)

\* str(guild_id), the id of a guild's document: the decimal digits.
RECURSIVE Digits(_)
Digits(n) == IF n < 10 THEN <<n>> ELSE Digits(n \div 10) \o <<n % 10>>
\* The order of the document ids, that of strings.
RECURSIVE StringLeq(_, _)
StringLeq(a, b) ==
    IF a = <<>> THEN TRUE
    ELSE IF b = <<>> THEN FALSE
    ELSE IF Head(a) # Head(b) THEN Head(a) < Head(b)
    ELSE StringLeq(Tail(a), Tail(b))

\* BackendStore.get_guilds_with_notifications: the documents with
\* notifications_enabled == True, in the order of their ids.
\* (GuildsWithDocuments: the faulty variant that returns every document.)
RECURSIVE GuildsWithDocuments(_, _)
GuildsWithDocuments(st, ids) ==
    IF ids = {} THEN <<>>
    ELSE LET g == CHOOSE x \in ids : \A y \in ids : StringLeq(Digits(x), Digits(y))
             rest == GuildsWithDocuments(st, ids \ {g}) IN
         IF st[g] # None
         THEN <<st[g][1]>> \o rest
         ELSE rest
RECURSIVE GuildsWithNotifications(_, _)
GuildsWithNotifications(st, ids) ==
    IF ids = {} THEN <<>>
    ELSE LET g == CHOOSE x \in ids : \A y \in ids : StringLeq(Digits(x), Digits(y))
             rest == GuildsWithNotifications(st, ids \ {g}) IN
         IF st[g] # None /\ st[g][1].notifications_enabled
         THEN <<st[g][1]>> \o rest
         ELSE rest

BackendCall(op, g, arg, r) ==
    [op |-> op, guild |-> g, arg |-> arg, outcome |-> r.outcome, ret |-> r.ret]

\* The callers of BackendStore's methods (test_backend calls them directly).
StoreAddOrGet(g, fail) ==
    LET r == AddOrGetGuildConfig(store, g, fail) IN
    /\ store' = r.store
    /\ last' = BackendCall("add_or_get_guild_config", g, None, r)
    /\ UNCHANGED <<now, cache, sent, npc, nqueue, deps, loop, addSent>>

StoreAddTrackedPlayer(g, name, fail) ==
    LET r == AddTrackedPlayer(store, g, name, fail) IN
    /\ store' = r.store
    /\ last' = BackendCall("add_tracked_player", g, name, r)
    /\ UNCHANGED <<now, cache, sent, npc, nqueue, deps, loop, addSent>>

StoreEnableNotifications(g, ch, fail) ==
    LET r == EnableNotifications(store, g, ch, fail) IN
    /\ store' = r.store
    /\ last' = BackendCall("enable_notifications", g, ch, r)
    /\ UNCHANGED <<now, cache, sent, npc, nqueue, deps, loop, addSent>>

StoreGetNotification(g, title, fail) ==
    LET r == GetNotification(store, g, title, fail) IN
    /\ store' = r.store
    /\ last' = BackendCall("get_notification", g, title, r)
    /\ UNCHANGED <<now, cache, sent, npc, nqueue, deps, loop, addSent>>

StoreAddSentNotification(g, title, fail) ==
    LET r == AddSentNotification(store, g, title, fail) IN
    /\ store' = r.store
    /\ last' = BackendCall("add_sent_notification", g, title, r)
    /\ addSent' = IF r.outcome = "ok" THEN addSent \cup {<<g, title>>} ELSE addSent
    /\ UNCHANGED <<now, cache, sent, npc, nqueue, deps, loop>>

(***************************************************************************)
(* bot.py                                                                  *)
(***************************************************************************)
\* The notifications task sends at most MaxSent messages.
MaxSent == 2

\* str.lower(), character by character: the upper-case characters of the
\* names used here, each with its lower-case form.
CasePairs == {<<"R", "r">>, <<"T", "t">>, <<"B", "b">>}
LowerChar(c) ==
    IF \E p \in CasePairs : p[1] = c THEN (CHOOSE p \in CasePairs : p[1] = c)[2] ELSE c
\* (LowerUnchanged: the faulty variant that compares names as they are.)
LowerUnchanged(name) == name
Lower(name) == [i \in 1..Len(name) |-> LowerChar(name[i])]

\* Player (fullName and shortName of its details, score) and RunningEvent
\* (name, event_status.type.completed, the players of competitions[0]).
Player(fullName, shortName, score) == [fullName |-> fullName, shortName |-> shortName, score |-> score]
RunningEvent(name, completed, players) == [name |-> name, completed |-> completed, players |-> players]

Ro(score) == Player(<<"R", "o">>, <<"R">>, score)
Ti(score) == Player(<<"T", "i">>, <<"T">>, score)
Br(score) == Player(<<"B", "r">>, <<"B">>, score)
OpenEvent == RunningEvent("Open", TRUE, <<Ro(-13), Ti(-7), Br(-7)>>)
MastersEvent == RunningEvent("Masters", FALSE, <<Ti(-3), Br(0)>>)
PlayersEvent == RunningEvent("Players", FALSE, <<Br(-1), Ro(2)>>)

\* What EspnScoreboardAPI.get_scoreboard can answer: the events of a
\* scoreboard, or None when the request fails.
Scoreboards == {<<>>, <<OpenEvent, MastersEvent, PlayersEvent>>, <<PlayersEvent, MastersEvent>>}
ScoreboardAnswers == {None} \cup {Some(sb) : sb \in Scoreboards}

\* f"site:espn.com {event_result.winner} {event.name}"
WinnerQuery(winner, name) == <<"site:espn.com", winner, name>>
WinnerQueries == {WinnerQuery(<<"R", "o">>, "Open")}
\* What the remote search answers to each query of a run.
RemoteAnswers == [WinnerQueries -> {<<>>, <<"a">>}]

\* Commands._get_guild_config
GetGuildConfig(st, g, fail) ==
    IF deps.backend
    THEN AddOrGetGuildConfig(st, g, fail)
    ELSE Returned(st, Some(GuildConfig(g)))

\* Commands._filter_events_by_guild_config; guild_id is None or Some(g).
FilterEventsByGuildConfig(st, guild_id, events, fail) ==
    IF guild_id = None THEN Returned(st, events)
    ELSE LET r == GetGuildConfig(st, guild_id[1], fail) IN
         IF r.outcome = "error" THEN r
         ELSE LET track_players == {Lower(x) : x \in Range(r.ret[1].track_players)}
                  competition_players(event) == {Lower(x.fullName) : x \in Range(event.players)}
                  tracked(event) == track_players \cap competition_players(event) # {}
              IN Returned(r.store, SelectSeq(events, tracked))

\* Commands.get_current_events(guild_id), event_name_filter left None as every
\* caller leaves it (text_string_compare(None, name) is True): the store
\* afterwards and the events returned.
GetCurrentEvents(st, guild_id, answer, fail) ==
    IF answer = None THEN Raised(st)
    ELSE FilterEventsByGuildConfig(st, guild_id, answer[1], fail)

\* get_winner_and_margin, of an event with at least two players.
GetWinnerAndMargin(event) ==
    LET winner == event.players[1]
        second == event.players[2] IN
    [winner |-> winner.fullName,
     winning_score |-> winner.score,
     second_place_score |-> second.score,
     margin |-> -(winner.score - second.score),
     second_place_players |->
        LET at == SelectSeq([i \in 1..Len(event.players) |-> i],
                            LAMBDA i : event.players[i].score = second.score)
        IN [k \in 1..Len(at) |-> event.players[at[k]].shortName]]

\* PLACEHOLDER_THUMBNAIL, a url.
PLACEHOLDER_THUMBNAIL == <<"placeholder">>
\* The link of a search item, the metatags of its pagemap (item "a" has one,
\* with an image; item "b" has none) and event.links[0].href.
ItemLink(item) == <<"link", item>>
ItemMetatags(item) == IF item = "a" THEN <<[image |-> Some(<<"image", item>>)]>> ELSE <<>>
EventLink(event) == <<"href", event.name>>

\* WinnerEmbed.get_embed: the title (player, event and margin; the wording of
\* the title is not modelled), the description, the url and the image (None
\* when no image is set).
WinnerEmbed(player_name, player_image, event_title, win_margin, win_snippet, link) ==
    [title |-> WinnerTitle(player_name, event_title, win_margin), description |-> win_snippet,
     url |-> link, image |-> player_image]

\* The loop of Commands.get_winners over the events, with text cache c at time
\* t: the cache afterwards, the outcome and the embeds.
RECURSIVE WinnersOf(_, _, _, _)
WinnersOf(events, c, t, remote) ==
    IF events = <<>> THEN [cache |-> c, outcome |-> "ok", embeds |-> <<>>]
    ELSE LET event == Head(events) IN
         IF ~event.completed THEN WinnersOf(Tail(events), c, t, remote)
         ELSE IF Len(event.players) < 2 \/ ~deps.search_engine
              THEN [cache |-> c, outcome |-> "error", embeds |-> <<>>]
              ELSE LET event_result == GetWinnerAndMargin(event)
                       q == WinnerQuery(event_result.winner, event.name)
                       search == GetFirst(c, q, t, remote[q]) IN
                   \* search_result.pagemap of a None search_result: AttributeError
                   IF search.outcome = "error" \/ search.ret = None
                   THEN [cache |-> search.cache, outcome |-> "error", embeds |-> <<>>]
                   ELSE LET rest == WinnersOf(Tail(events), search.cache, t, remote) IN
                        IF rest.outcome = "error" THEN rest
                        ELSE [cache |-> rest.cache, outcome |-> "ok",
                              embeds |-> <<WinnerEmbed(event_result.winner,
                                                       IF ItemMetatags(search.ret[1]) # <<>>
                                                       THEN ItemMetatags(search.ret[1])[1].image
                                                       ELSE Some(PLACEHOLDER_THUMBNAIL),
                                                       event.name, event_result.margin,
                                                       search.ret[1], ItemLink(search.ret[1]))>>
                                         \o rest.embeds]

\* Commands.get_winners(guild_id)
GetWinners(st, c, t, guild_id, answer, remote, fail) ==
    LET events == GetCurrentEvents(st, guild_id, answer, fail) IN
    IF events.outcome = "error"
    THEN [store |-> events.store, cache |-> c, outcome |-> "error", embeds |-> <<>>]
    ELSE LET w == WinnersOf(events.ret, c, t, remote) IN
         [store |-> events.store, cache |-> w.cache, outcome |-> w.outcome, embeds |-> w.embeds]

\* Commands._check_embeds_need_notifications
CheckEmbedsNeedNotifications(st, g, embeds, fail) ==
    SelectSeq(embeds, LAMBDA embed : GetNotification(st, g, embed.title, fail).ret = None)

\* The messages of the command layer.
Msg(text, name) == [text |-> text, name |-> name]
MsgAdded(name) == Msg("Added {player_name} to the list of tracked players!", name)
MsgAddFailed == Msg("Failed to add player - backend failure.", None)
MsgSuccessfullyAdded(name) ==
    Msg("{player_name} Successfully added to your tracked player list.", name)
MsgEnabled == Msg("Notifications enabled in this channel.", None)
MsgEnableFailed == Msg("Failed to enable notifications - backend failure.", None)

\* Commands.add_tracked_player: the store afterwards, the string returned and
\* whether the backend call raised (None has no add_tracked_player).
CommandsAddTrackedPlayer(st, g, name, fail) ==
    IF ~deps.backend THEN [store |-> st, ret |-> MsgAddFailed, failed |-> TRUE]
    ELSE LET r == AddTrackedPlayer(st, g, name, fail) IN
         IF r.outcome = "error"
         THEN [store |-> r.store, ret |-> MsgAddFailed, failed |-> TRUE]
         ELSE [store |-> r.store, ret |-> MsgAdded(name), failed |-> FALSE]

\* Commands.enable_notifications
CommandsEnableNotifications(st, g, ch, fail) ==
    IF ~deps.backend THEN [store |-> st, ret |-> MsgEnableFailed, failed |-> TRUE]
    ELSE LET r == EnableNotifications(st, g, ch, fail) IN
         IF r.outcome = "error"
         THEN [store |-> r.store, ret |-> MsgEnableFailed, failed |-> TRUE]
         ELSE [store |-> r.store, ret |-> MsgEnabled, failed |-> FALSE]

CommandCall(op, g, arg, r, reply) ==
    [op |-> op, guild |-> g, arg |-> arg, outcome |-> "ok", ret |-> r.ret,
     failed |-> r.failed, reply |-> reply]

\* The add_tracked_player slash command.
SlashAddTrackedPlayer(g, name, fail) ==
    LET r == CommandsAddTrackedPlayer(store, g, name, fail) IN
    /\ npc # "running"
    /\ store' = r.store
    /\ last' = CommandCall("slash_add_tracked_player", g, name, r, MsgSuccessfullyAdded(name))
    /\ UNCHANGED <<now, cache, sent, npc, nqueue, deps, loop, addSent>>

\* The enable_notifications slash command.
SlashEnableNotifications(g, ch, fail) ==
    LET r == CommandsEnableNotifications(store, g, ch, fail) IN
    /\ npc # "running"
    /\ store' = r.store
    /\ last' = CommandCall("slash_enable_notifications", g, ch, r, r.ret)
    /\ UNCHANGED <<now, cache, sent, npc, nqueue, deps, loop, addSent>>

\* A caller of Commands.get_current_events.
CurrentEvents(guild_id, answer, fail) ==
    LET r == GetCurrentEvents(store, guild_id, answer, fail) IN
    /\ npc # "running"
    /\ store' = r.store
    /\ last' = [op |-> "get_current_events", guild |-> guild_id, arg |-> answer,
                outcome |-> r.outcome, ret |-> r.ret]
    /\ UNCHANGED <<now, cache, sent, npc, nqueue, deps, loop, addSent>>

\* The guild id Commands.notifications skips.
TEST_GUILD_ID == 12345

NotificationsCall(g, outcome, titles) ==
    [op |-> "notifications", guild |-> g, outcome |-> outcome, ret |-> titles]

\* The notifications task starts a run (every 5 minutes): Commands.notifications
\* reads the guilds to notify.  An exception ends the task for good.
NotificationsStart(fail) ==
    /\ npc = "idle"
    /\ IF ~deps.backend \/ fail = "get"
       THEN /\ npc' = "failed"
            /\ nqueue' = <<>>
            /\ last' = NotificationsCall(None, "error", <<>>)
       ELSE LET guilds == GuildsWithNotifications(store, DOMAIN store) IN
            /\ nqueue' = guilds
            /\ npc' = IF guilds = <<>> THEN "idle" ELSE "running"
            /\ last' = NotificationsCall(None, "ok", <<>>)
    /\ UNCHANGED <<now, cache, store, sent, deps, loop, addSent>>

\* One turn of the loop of Commands.notifications, for the next guild; the
\* task yields only in `await notification_channel.send(...)`.
NotificationsGuild(answer, remote, fail) ==
    /\ npc = "running"
    /\ nqueue # <<>>
    /\ Len(sent) < MaxSent
    /\ LET guild_config == Head(nqueue)
           g == guild_config.guild_id
           after == IF Tail(nqueue) = <<>> THEN "idle" ELSE "running" IN
       IF g = TEST_GUILD_ID
       THEN /\ nqueue' = Tail(nqueue)
            /\ npc' = after
            /\ last' = NotificationsCall(Some(g), "ok", <<>>)
            /\ UNCHANGED <<store, cache, sent>>
       ELSE LET w == GetWinners(store, cache["text"], now, Some(g), answer, remote, fail) IN
            /\ store' = w.store
            /\ cache' = [cache EXCEPT !["text"] = w.cache]
            /\ IF w.outcome = "error"
               THEN /\ npc' = "failed"
                    /\ nqueue' = <<>>
                    /\ last' = NotificationsCall(Some(g), "error", <<>>)
                    /\ sent' = sent
               ELSE LET notifications_to_send ==
                            CheckEmbedsNeedNotifications(w.store, g, w.embeds, fail)
                        titles == [i \in 1..Len(notifications_to_send) |->
                                      notifications_to_send[i].title] IN
                    /\ nqueue' = Tail(nqueue)
                    /\ last' = NotificationsCall(Some(g), "ok", titles)
                    /\ IF notifications_to_send # <<>>
                       THEN /\ sent' = Append(sent, [guild |-> g,
                                                     channel |-> guild_config.notification_channel,
                                                     titles |-> titles])
                            /\ npc' = "awaiting"
                       ELSE /\ sent' = sent
                            /\ npc' = after
    /\ UNCHANGED <<now, deps, loop, addSent>>

\* The send has completed; the loop goes on.
NotificationsResume ==
    /\ npc = "awaiting"
    /\ npc' = IF nqueue = <<>> THEN "idle" ELSE "running"
    /\ UNCHANGED <<now, cache, store, last, sent, nqueue, deps, loop, addSent>>

(***************************************************************************)
(* Specifications                                                          *)
(***************************************************************************)
NoCall == [op |-> "none", outcome |-> "ok", ret |-> None]

\* The handlers the event loop runs: the slash commands add_tracked_player,
\* enable_notifications and get_player_profile, and the notifications task.
\* Of each, where it is, its guild, its argument and what it has read.
TaskIds == {"add", "enable", "profile", "notify"}
IdleTask == [pc |-> "idle", guild |-> 0, arg |-> None, local |-> None]
\* No coroutine runs, no handler has begun.
LoopIdle == [running |-> None, task |-> [id \in TaskIds |-> IdleTask]]

Init ==
    /\ now = ImportTs
    /\ cache = [kind \in Kinds |-> EmptyDict]
    /\ store = [g \in GuildIds |-> None]
    /\ last = NoCall
    /\ sent = <<>>
    /\ npc = "idle"
    /\ nqueue = <<>>
    /\ deps = [backend |-> TRUE, search_engine |-> TRUE]
    /\ addSent = {}
    /\ loop = LoopIdle

\* The bot may have been started without a backend or without a search engine.
BotInit ==
    /\ now = ImportTs
    /\ cache = [kind \in Kinds |-> EmptyDict]
    /\ store = [g \in GuildIds |-> None]
    /\ last = NoCall
    /\ sent = <<>>
    /\ npc = "idle"
    /\ nqueue = <<>>
    /\ deps \in [backend : BOOLEAN, search_engine : BOOLEAN]
    /\ addSent = {}
    /\ loop = LoopIdle

\* The slash commands and the readers of the current events.
CommandNext ==
    \/ \E g \in GuildIds, name \in TrackNames, fail \in Fails : SlashAddTrackedPlayer(g, name, fail)
    \/ \E g \in GuildIds, ch \in Channels, fail \in Fails : SlashEnableNotifications(g, ch, fail)
    \/ \E guild_id \in {None} \cup {Some(g) : g \in GuildIds}, answer \in ScoreboardAnswers,
          fail \in Fails : CurrentEvents(guild_id, answer, fail)

CommandSpec == BotInit /\ [][CommandNext]_vars

\* The notifications task beside the slash commands (one name to track).
NotifyNext ==
    \/ \E g \in GuildIds, fail \in Fails : SlashAddTrackedPlayer(g, <<"r", "o">>, fail)
    \/ \E g \in GuildIds, ch \in Channels, fail \in Fails : SlashEnableNotifications(g, ch, fail)
    \/ \E fail \in Fails : NotificationsStart(fail)
    \/ \E answer \in ScoreboardAnswers, remote \in RemoteAnswers, fail \in Fails :
          NotificationsGuild(answer, remote, fail)
    \/ NotificationsResume

NotifySpec == BotInit /\ [][NotifyNext]_vars

\* The search cache and the searches that use it, as time passes.
CacheNext ==
    \/ \E kind \in Kinds, key \in Keys : CacheLookup(kind, key)
    \/ \E kind \in Kinds, key \in Keys, ts \in {ImportTs} \cup TsInputs :
          CacheStore(kind, key, <<>>, ts)
    \/ \E kind \in Kinds, key \in Keys, remote \in RemoteItems : SearchFirst(kind, key, remote)
    \/ Tick

CacheSpec == Init /\ [][CacheNext]_vars

\* The document store under the calls of BackendStore's methods, with the
\* names, channels and titles the callers pass.
StoreCalls(names, channels, titles) ==
    \/ \E g \in GuildIds, fail \in Fails : StoreAddOrGet(g, fail)
    \/ \E g \in GuildIds, name \in names, fail \in Fails : StoreAddTrackedPlayer(g, name, fail)
    \/ \E g \in GuildIds, ch \in channels, fail \in Fails : StoreEnableNotifications(g, ch, fail)
    \/ \E g \in GuildIds, title \in titles, fail \in Fails : StoreGetNotification(g, title, fail)
    \/ \E g \in GuildIds, title \in titles, fail \in Fails : StoreAddSentNotification(g, title, fail)

\* Every name and channel, one title.
StoreNext == StoreCalls(TrackNames, Channels, {WinnerTitle(<<"R", "o">>, "Open", 6)})

StoreSpec == Init /\ [][StoreNext]_vars

\* Every title, one name and one channel.
SentNext == StoreCalls({<<"R", "o">>}, {"c1"}, Titles)

SentSpec == Init /\ [][SentNext]_vars

(***************************************************************************)
(* The search cache                                                        *)
(***************************************************************************)
SearchOps == {"get_first_web_result", "get_first_image"}
Stored(kind, key) == key \in DOMAIN cache[kind]

\* C1, as the specification states it: get_from_cache returns the stored entry
\* exactly when one exists and now - ts < 10 days, and nothing when it is
\* absent or now - ts >= 10 days, 10 days exactly included.
C1_StrictlyLessThanMaxAge ==
    last.op = "get_from_cache" =>
        IF Stored(last.kind, last.key) /\ now - cache[last.kind][last.key].ts < CACHE_AGE_DAYS
        THEN last.ret = Some(cache[last.kind][last.key])
        ELSE last.ret = None

\* C1, amended: get_from_cache returns the stored entry exactly when one exists
\* and now - ts <= 10 days (an entry of exactly 10 days is still returned), and
\* nothing when it is absent or now - ts > 10 days.
C1_NotOlderThanMaxAge ==
    last.op = "get_from_cache" =>
        IF Stored(last.kind, last.key) /\ now - cache[last.kind][last.key].ts <= CACHE_AGE_DAYS
        THEN last.ret = Some(cache[last.kind][last.key])
        ELSE last.ret = None

\* A lookup of an entry that is exactly 10 days old has returned it.
C1_Witness ==
    /\ last.op = "get_from_cache"
    /\ Stored(last.kind, last.key)
    /\ now - cache[last.kind][last.key].ts = CACHE_AGE_DAYS
    /\ last.ret = Some(cache[last.kind][last.key])

\* C2: the entry a search stores on a lookup miss at time t carries
\* fetchedAt = t (so that it answers the calls made before t + 10 days).
C2_EntryCarriesFetchTime ==
    (last.op \in SearchOps /\ last.fetched /\ last.ret # None) =>
        /\ Stored(last.kind, last.key)
        /\ cache[last.kind][last.key].ts = now

\* C10: a lookup leaves the backing dict as it was, no step removes a key, and
\* an entry changes only in a step that calls add_to_cache with that very key
\* (directly, or from a search that fetched a result for it).
C10_Step ==
    /\ (last'.op = "get_from_cache" => cache' = cache)
    /\ \A kind \in Kinds :
        /\ DOMAIN cache[kind] \subseteq DOMAIN cache'[kind]
        /\ \A key \in DOMAIN cache'[kind] :
            (key \notin DOMAIN cache[kind] \/ cache'[kind][key] # cache[kind][key]) =>
                /\ last'.kind = kind /\ last'.key = key
                /\ \/ last'.op = "add_to_cache"
                   \/ last'.op \in SearchOps /\ last'.fetched /\ last'.ret # None

C10_LookupsNeverModify == [][C10_Step]_vars

\* A lookup of an expired entry has returned nothing and the entry is still stored.
C10_Witness ==
    /\ last.op = "get_from_cache"
    /\ last.ret = None
    /\ Stored(last.kind, last.key)
    /\ now - cache[last.kind][last.key].ts > CACHE_AGE_DAYS

(***************************************************************************)
(* The guild configuration store                                           *)
(***************************************************************************)
NoDuplicates(s) == \A i, j \in 1..Len(s) : s[i] = s[j] => i = j
IsPrefix(s, t) == Len(s) <= Len(t) /\ \A i \in 1..Len(s) : s[i] = t[i]

\* The configuration of guild g in store st: the stored document, or what the
\* first access would create.
ConfigOf(st, g) == IF st[g] = None THEN GuildConfig(g) ELSE st[g][1]

\* C6: the persisted track_players list holds no name twice; a returning
\* add_tracked_player(g, name) appends the name when the list does not hold it
\* (so names stand in the order of their first addition) and changes neither
\* the list nor the stored document when it does.
C6_Step ==
    (last'.op = "add_tracked_player" /\ last'.outcome = "ok") =>
        LET g == last'.guild
            old == ConfigOf(store, g).track_players
            new == ConfigOf(store', g).track_players IN
        IF last'.arg \in Range(old)
        THEN store' = store
        ELSE new = Append(old, last'.arg)

C6_TrackedPlayersOnceInOrder ==
    /\ [](\A g \in GuildIds : NoDuplicates(ConfigOf(store, g).track_players))
    /\ [][C6_Step]_vars

\* A name already tracked, the first of two, has been added again.
C6_Witness ==
    /\ last.op = "add_tracked_player"
    /\ last.outcome = "ok"
    /\ Len(ConfigOf(store, last.guild).track_players) = 2
    /\ ConfigOf(store, last.guild).track_players[1] = last.arg

\* C7: the first access to a guild with no document persists a GuildConfig
\* with that guild id and the defaults (the accessing operation's own update
\* applied to it); an access to a guild that has a document returns what is
\* stored and no step takes anything stored back to a default.
C7_Step ==
    \A g \in GuildIds :
        /\ (store[g] = None /\ last'.guild = g /\ (last'.outcome = "ok" \/ store'[g] # None)) =>
            /\ store'[g] # None
            /\ store'[g][1].guild_id = g
            /\ store'[g][1].track_players =
                  IF last'.op = "add_tracked_player" /\ last'.outcome = "ok"
                  THEN <<last'.arg>> ELSE <<>>
            /\ store'[g][1].notifications_enabled =
                  (last'.op = "enable_notifications" /\ last'.outcome = "ok")
            /\ store'[g][1].notification_channel =
                  IF last'.op = "enable_notifications" /\ last'.outcome = "ok"
                  THEN Some(last'.arg) ELSE None
            /\ store'[g][1].event_notifications =
                  IF last'.op = "add_sent_notification" /\ last'.outcome = "ok"
                  THEN <<last'.arg>> ELSE <<>>
            /\ (last'.op = "add_or_get_guild_config" => last'.ret = Some(GuildConfig(g)))
        /\ (store[g] = None /\ last'.guild # g) => store'[g] = None
        /\ store[g] # None =>
            /\ store'[g] # None
            /\ store'[g][1].guild_id = store[g][1].guild_id
            /\ IsPrefix(store[g][1].track_players, store'[g][1].track_players)
            /\ IsPrefix(store[g][1].event_notifications, store'[g][1].event_notifications)
            /\ (store[g][1].notifications_enabled => store'[g][1].notifications_enabled)
            /\ (store[g][1].notification_channel # None => store'[g][1].notification_channel # None)
            /\ (last'.op = "add_or_get_guild_config" /\ last'.guild = g /\ last'.outcome = "ok") =>
                  (last'.ret = store[g] /\ store' = store)

C7_CreatedOnceNeverReset == [][C7_Step]_vars

\* add_or_get_guild_config has returned a stored configuration that is not the default.
C7_Witness ==
    /\ last.op = "add_or_get_guild_config"
    /\ last.outcome = "ok"
    /\ last.ret = store[last.guild]
    /\ last.ret[1].track_players # <<>>
    /\ last.ret[1].notifications_enabled
    /\ last.ret[1].event_notifications # <<>>

\* C8: a returning enable_notifications(g, channel) sets notifications_enabled
\* and notification_channel and leaves track_players and event_notifications
\* as they were; add_tracked_player and add_sent_notification leave
\* notifications_enabled and notification_channel as they were; and once
\* enabled, a guild stays enabled, its channel changing only to the channel of
\* a later enable_notifications.
C8_Step ==
    /\ (last'.op = "enable_notifications" /\ last'.outcome = "ok") =>
          LET g == last'.guild IN
          /\ ConfigOf(store', g).notifications_enabled
          /\ ConfigOf(store', g).notification_channel = Some(last'.arg)
          /\ ConfigOf(store', g).track_players = ConfigOf(store, g).track_players
          /\ ConfigOf(store', g).event_notifications = ConfigOf(store, g).event_notifications
    /\ last'.op \in {"add_tracked_player", "add_sent_notification"} =>
          \A g \in GuildIds :
              /\ ConfigOf(store', g).notifications_enabled = ConfigOf(store, g).notifications_enabled
              /\ ConfigOf(store', g).notification_channel = ConfigOf(store, g).notification_channel
    /\ \A g \in GuildIds :
          ConfigOf(store, g).notifications_enabled =>
              /\ ConfigOf(store', g).notifications_enabled
              /\ ConfigOf(store', g).notification_channel # ConfigOf(store, g).notification_channel =>
                    /\ last'.op = "enable_notifications" /\ last'.guild = g
                    /\ ConfigOf(store', g).notification_channel = Some(last'.arg)

C8_EnableFrame == [][C8_Step]_vars

\* A player has been added to a guild that had notifications enabled, a
\* tracked player and a sent notification.
C8_Witness ==
    /\ last.op = "add_tracked_player"
    /\ last.outcome = "ok"
    /\ Len(ConfigOf(store, last.guild).track_players) = 2
    /\ ConfigOf(store, last.guild).track_players[2] = last.arg
    /\ ConfigOf(store, last.guild).notifications_enabled
    /\ ConfigOf(store, last.guild).notification_channel = Some("c2")
    /\ ConfigOf(store, last.guild).event_notifications # <<>>

\* C9: get_notification(g, title) is true exactly when add_sent_notification
\* has returned for g and that title before; a title is stored at most once,
\* adding it again changes nothing, and the titles stored for a guild are
\* those added for that guild and no other.
C9_State ==
    /\ (last.op = "get_notification" /\ last.outcome = "ok") =>
          (last.ret = Some(TRUE) <=> <<last.guild, last.arg>> \in addSent)
    /\ (last.op = "get_notification" /\ last.outcome = "ok") => last.ret \in {Some(TRUE), None}
    /\ \A g \in GuildIds :
          /\ NoDuplicates(ConfigOf(store, g).event_notifications)
          /\ \A title \in Titles :
                title \in Range(ConfigOf(store, g).event_notifications) <=> <<g, title>> \in addSent

C9_Step ==
    (last'.op = "add_sent_notification" /\ <<last'.guild, last'.arg>> \in addSent) => store' = store

C9_SentNotificationsAreASet == []C9_State /\ [][C9_Step]_vars

\* get_notification has answered true for a guild while the other guild has
\* a title recorded that this guild has not.
C9_Witness ==
    /\ last.op = "get_notification"
    /\ last.ret = Some(TRUE)
    /\ \E h \in GuildIds, title \in Titles :
          /\ h # last.guild
          /\ <<h, title>> \in addSent
          /\ <<last.guild, title>> \notin addSent

(***************************************************************************)
(* The command layer and the notifications task                            *)
(***************************************************************************)
\* C3: a title sent to a guild's channel is recorded in that guild's
\* event_notifications once the send has completed, and no title is sent to
\* the same guild in two messages.
C3_NotifiedOncePerGuild ==
    /\ \A i \in 1..Len(sent) :
          (i < Len(sent) \/ npc # "awaiting") =>
              Range(sent[i].titles) \subseteq
                  Range(ConfigOf(store, sent[i].guild).event_notifications)
    /\ \A i, j \in 1..Len(sent) :
          (i < j /\ sent[i].guild = sent[j].guild) =>
              Range(sent[i].titles) \cap Range(sent[j].titles) = {}

\* Equality of two names but for the case of their characters.
SameLetter(x, y) == x = y \/ <<x, y>> \in CasePairs \/ <<y, x>> \in CasePairs
EqualsIgnoringCase(a, b) == Len(a) = Len(b) /\ \A i \in 1..Len(a) : SameLetter(a[i], b[i])

\* C4: given a guild id, get_current_events returns, in the scoreboard's
\* order, exactly the events one of whose players has a full name equal but
\* for case to a name the guild tracks (none when it tracks nobody); given no
\* guild id it returns every event.
C4_FilteredByTrackedPlayers ==
    (last.op = "get_current_events" /\ last.outcome = "ok") =>
        LET events == last.arg[1] IN
        IF last.guild = None THEN last.ret = events
        ELSE LET tracked == IF deps.backend
                            THEN ConfigOf(store, last.guild[1]).track_players
                            ELSE <<>>
                 featured(event) ==
                     \E i \in 1..Len(event.players), j \in 1..Len(tracked) :
                         EqualsIgnoringCase(event.players[i].fullName, tracked[j])
             IN last.ret = SelectSeq(events, featured)

\* A guild that tracks "ro" alone has got the two events of three in which
\* "Ro" plays, in the scoreboard's order.
C4_Witness ==
    /\ last.op = "get_current_events"
    /\ last.outcome = "ok"
    /\ last.guild # None
    /\ deps.backend
    /\ ConfigOf(store, last.guild[1]).track_players = << <<"r", "o">> >>
    /\ last.arg = Some(<<OpenEvent, MastersEvent, PlayersEvent>>)
    /\ last.ret = <<OpenEvent, PlayersEvent>>

\* C5: when the backend call of the add_tracked_player or enable_notifications
\* command fails (the store raising, or no store), no exception propagates and
\* the message sent for the interaction is the failure string.
C5_FailureIsReplied ==
    (last.op \in {"slash_add_tracked_player", "slash_enable_notifications"} /\ last.failed) =>
        /\ last.outcome = "ok"
        /\ last.reply \in {MsgAddFailed, MsgEnableFailed}

(***************************************************************************)
(* bot.py: linescores, rounds and the current round                        *)
(***************************************************************************)
\* The most holes of a round and the most rounds of a player in the inputs.
MaxHoles == 2
MaxRounds == 2
\* The most players of an event in the inputs.
MaxField == 3

\* A round's linescore as the scoreboard gives it: {"value": ..., "linescores":
\* [{"value": ...}, ...]}, a key that is missing being None.
LineScore(value, linescores) == [value |-> value, linescores |-> linescores]
HoleScore(value) == [value |-> value]

\* `if value:` of a value that is None or a number.
Truthy(value) == value # None /\ value[1] # 0

Hole(number, score) == [number |-> number, score |-> score]
Scorecard(holes) == [holes |-> holes]
Rounds(scorecards) == [scorecards |-> scorecards]

\* The inner loop of linescores_to_rounds: the holes of one round.  Hole(score=None)
\* fails validation.
\* (HolesOfRoundFromZero: the faulty variant that numbers the holes from 0.)
HolesOfRoundFromZero(round_linescores) ==
    IF \E i \in 1..Len(round_linescores) : round_linescores[i].value = None
    THEN [outcome |-> "error", holes |-> <<>>]
    ELSE [outcome |-> "ok",
          holes |-> [i \in 1..Len(round_linescores) |->
                        Hole(i - 1, round_linescores[i].value[1])]]
HolesOfRound(round_linescores) ==
    IF \E i \in 1..Len(round_linescores) : round_linescores[i].value = None
    THEN [outcome |-> "error", holes |-> <<>>]
    ELSE [outcome |-> "ok",
          holes |-> [i \in 1..Len(round_linescores) |->
                        Hole(i, round_linescores[i].value[1])]]

\* linescores_to_rounds: the outcome and the Rounds returned.  enumerate(None),
\* of a round that has a value and no "linescores", raises.
RECURSIVE ScorecardsOf(_)
ScorecardsOf(linescores) ==
    IF linescores = <<>> THEN [outcome |-> "ok", scorecards |-> <<>>]
    ELSE LET line_score == Head(linescores) IN
         IF ~Truthy(line_score.value) THEN ScorecardsOf(Tail(linescores))
         ELSE IF line_score.linescores = None THEN [outcome |-> "error", scorecards |-> <<>>]
         ELSE LET holes == HolesOfRound(line_score.linescores[1]) IN
              IF holes.outcome = "error" THEN [outcome |-> "error", scorecards |-> <<>>]
              ELSE LET rest == ScorecardsOf(Tail(linescores)) IN
                   IF rest.outcome = "error" THEN rest
                   ELSE [outcome |-> "ok",
                         scorecards |-> <<Scorecard(holes.holes)>> \o rest.scorecards]

LinescoresToRounds(linescores) ==
    LET r == ScorecardsOf(linescores) IN
    IF r.outcome = "error" THEN [outcome |-> "error", ret |-> None]
    ELSE [outcome |-> "ok", ret |-> Some(Rounds(r.scorecards))]

\* sorted(xs, reverse=True), by insertion.
RECURSIVE InsertDescending(_, _)
InsertDescending(x, sorted) ==
    IF sorted = <<>> THEN <<x>>
    ELSE IF x > Head(sorted) THEN <<x>> \o sorted
    ELSE <<Head(sorted)>> \o InsertDescending(x, Tail(sorted))
RECURSIVE SortedDescending(_)
SortedDescending(xs) ==
    IF xs = <<>> THEN <<>>
    ELSE InsertDescending(Head(xs), SortedDescending(Tail(xs)))

\* get_current_round_number: [0] of the sorted list raises IndexError when
\* the list is empty.
GetCurrentRoundNumber(all_rounds) ==
    LET lengths == SortedDescending([i \in 1..Len(all_rounds) |-> Len(all_rounds[i].scorecards)]) IN
    IF lengths = <<>> THEN [outcome |-> "error", ret |-> None]
    ELSE [outcome |-> "ok", ret |-> Some(lengths[1])]

\* The sequences over S of length at most n.
SeqsUpTo(S, n) == UNION {[1..k -> S] : k \in 0..n}

\* The linescores of the inputs: rounds not played (no value, or a value of
\* 0) and rounds played, with or without their holes.
HoleScores == {HoleScore(Some(3)), HoleScore(Some(5)), HoleScore(None)}
LineScores ==
    {LineScore(None, None), LineScore(Some(0), Some(<<HoleScore(Some(3))>>))}
    \cup {LineScore(Some(68), holes) :
            holes \in {None} \cup {Some(h) : h \in SeqsUpTo(HoleScores, MaxHoles)}}
LineScoreLists == SeqsUpTo(LineScores, MaxRounds)

\* The rounds of the players of an event: players with no, one and two rounds.
PlayedRound == LineScore(Some(68), Some(<<HoleScore(Some(3)), HoleScore(Some(5))>>))
PlayerRounds ==
    {LinescoresToRounds(l).ret[1] :
        l \in {<<>>, <<LineScore(None, None)>>, <<PlayedRound>>, <<PlayedRound, PlayedRound>>}}

\* A caller of linescores_to_rounds.
LinescoresToRoundsCall(linescores) ==
    LET r == LinescoresToRounds(linescores) IN
    /\ last = NoCall
    /\ last' = [op |-> "linescores_to_rounds", arg |-> linescores,
                outcome |-> r.outcome, ret |-> r.ret]
    /\ UNCHANGED <<now, cache, store, sent, npc, nqueue, deps, loop, addSent>>

\* A caller of get_current_round_number.
CurrentRoundNumberCall(all_rounds) ==
    LET r == GetCurrentRoundNumber(all_rounds) IN
    /\ last = NoCall
    /\ last' = [op |-> "get_current_round_number", arg |-> all_rounds,
                outcome |-> r.outcome, ret |-> r.ret]
    /\ UNCHANGED <<now, cache, store, sent, npc, nqueue, deps, loop, addSent>>

\* get_winner_and_margin of any event: players[1] of an event with fewer than
\* two players raises IndexError.
WinnerAndMargin(event) ==
    IF Len(event.players) < 2 THEN [outcome |-> "error", ret |-> None]
    ELSE [outcome |-> "ok", ret |-> Some(GetWinnerAndMargin(event))]

\* The completed events of the inputs: up to MaxField of the three players, in
\* their finishing order (the scores never decrease down the list).
FinalScores == {-2, 0}
Finishers == {Ro(0), Ti(0), Br(0)}
FinishedFields ==
    {players \in SeqsUpTo({Player(p.fullName, p.shortName, score) :
                                p \in Finishers, score \in FinalScores}, MaxField) :
        /\ \A i, j \in 1..Len(players) : i < j =>
              /\ players[i].fullName # players[j].fullName
              /\ players[i].score <= players[j].score}
FinishedEvents == {RunningEvent("Open", TRUE, players) : players \in FinishedFields}

\* A caller of get_winner_and_margin.
WinnerAndMarginCall(event) ==
    LET r == WinnerAndMargin(event) IN
    /\ last = NoCall
    /\ last' = [op |-> "get_winner_and_margin", arg |-> event,
                outcome |-> r.outcome, ret |-> r.ret]
    /\ UNCHANGED <<now, cache, store, sent, npc, nqueue, deps, loop, addSent>>

\* The caller goes on with what the call returned.
RoundsReturn ==
    /\ last.op \in {"linescores_to_rounds", "get_current_round_number", "get_winner_and_margin"}
    /\ last' = NoCall
    /\ UNCHANGED <<now, cache, store, sent, npc, nqueue, deps, loop, addSent>>

RoundsNext ==
    \/ /\ last = NoCall
       /\ \E linescores \in LineScoreLists : LinescoresToRoundsCall(linescores)
    \/ /\ last = NoCall
       /\ \E all_rounds \in SeqsUpTo(PlayerRounds, MaxField) : CurrentRoundNumberCall(all_rounds)
    \/ /\ last = NoCall
       /\ \E event \in FinishedEvents : WinnerAndMarginCall(event)
    \/ RoundsReturn

RoundsSpec == Init /\ [][RoundsNext]_vars

\* The positions of the played rounds (those with a truthy value) of linescores.
RECURSIVE PlayedPositions(_, _)
PlayedPositions(linescores, i) ==
    IF i > Len(linescores) THEN <<>>
    ELSE (IF linescores[i].value # None /\ linescores[i].value # Some(0) THEN <<i>> ELSE <<>>)
         \o PlayedPositions(linescores, i + 1)

\* C19: a returning linescores_to_rounds gives one scorecard for each round
\* that has a truthy value, in the order of the input, and none for the other
\* rounds; the holes of a scorecard are numbered 1..n in the order of the
\* round's entries, each with the score of its entry; so there are no more
\* scorecards than linescores.
C19_ScorecardsOfPlayedRounds ==
    (last.op = "linescores_to_rounds" /\ last.outcome = "ok") =>
        LET played == PlayedPositions(last.arg, 1)
            scorecards == last.ret[1].scorecards IN
        /\ Len(scorecards) = Len(played)
        /\ Len(scorecards) <= Len(last.arg)
        /\ \A k \in 1..Len(played) :
              LET entries == last.arg[played[k]].linescores[1]
                  holes == scorecards[k].holes IN
              /\ Len(holes) = Len(entries)
              /\ \A n \in 1..Len(holes) :
                    holes[n].number = n /\ Some(holes[n].score) = entries[n].value

\* Of two rounds, the second alone played, with two holes:
\* one scorecard has been produced.
C19_Witness ==
    /\ last.op = "linescores_to_rounds"
    /\ last.outcome = "ok"
    /\ Len(last.arg) = 2
    /\ ~Truthy(last.arg[1].value)
    /\ Len(last.ret[1].scorecards) = 1
    /\ Len(last.ret[1].scorecards[1].holes) = 2
    /\ last.ret[1].scorecards[1].holes[2].score = 5

\* The greatest of a sequence of naturals, 0 for the empty sequence.
MaxOf(xs) == IF xs = <<>> THEN 0 ELSE CHOOSE m \in Range(xs) : \A x \in Range(xs) : x <= m

\* C11: get_current_round_number returns the greatest number of scorecards a
\* player has, and 0, not an error, when the players have no rounds or there
\* are no players.
C11_MaxRoundsOrZero ==
    last.op = "get_current_round_number" =>
        /\ last.outcome = "ok"
        /\ last.ret = Some(MaxOf([i \in 1..Len(last.arg) |-> Len(last.arg[i].scorecards)]))

\* The shortNames of the players after the first whose score is score.
RECURSIVE OthersAt(_, _, _)
OthersAt(players, i, score) ==
    IF i > Len(players) THEN <<>>
    ELSE (IF players[i].score = score THEN <<players[i].shortName>> ELSE <<>>)
         \o OthersAt(players, i + 1, score)

\* C17: get_winner_and_margin of an event whose players are in finishing
\* order fails when there are fewer than two players and otherwise returns
\* the first player as the winner, the margin second - winner, which is not
\* negative, and as second_place_players exactly the players other than the
\* winner whose score is the second player's.
C17_WinnerMarginAndRunnersUp ==
    last.op = "get_winner_and_margin" =>
        LET players == last.arg.players IN
        IF Len(players) < 2 THEN last.outcome = "error"
        ELSE /\ last.outcome = "ok"
             /\ last.ret[1].winner = players[1].fullName
             /\ last.ret[1].margin = players[2].score - players[1].score
             /\ last.ret[1].margin >= 0
             /\ last.ret[1].second_place_players = OthersAt(players, 2, players[2].score)

(***************************************************************************)
(* bot.py: the leaderboards                                                *)
(***************************************************************************)
\* player_and_scores[:5]
TOP_N == 5
\* The most players of a leaderboard event that the inputs choose freely.
MaxFree == 3

\* A player of a running event: the fullName of its details, its score and
\* its linescores.
LeaderPlayer(fullName, score, linescores) ==
    [fullName |-> fullName, score |-> score, linescores |-> linescores]
PlayerAndScore(score, player_name, through) ==
    [score |-> score, player_name |-> player_name, through |-> through]

\* `len(rounds.scorecards[current_round - 1].holes)`, 0 on IndexError; index
\* -1, of round 0, is the last scorecard.
ThroughOf(rounds, current_round) ==
    LET n == Len(rounds.scorecards)
        index == IF current_round = 0 THEN n ELSE current_round IN
    IF index >= 1 /\ index <= n THEN Len(rounds.scorecards[index].holes) ELSE 0

\* list.sort(key=lambda x: x.score): stable, by insertion from the right.
\* (InsertBeforeEqual: the faulty variant that puts a player before those of
\* the same score.)
RECURSIVE InsertBeforeEqual(_, _)
InsertBeforeEqual(x, sorted) ==
    IF sorted = <<>> THEN <<x>>
    ELSE IF x.score <= Head(sorted).score THEN <<x>> \o sorted
    ELSE <<Head(sorted)>> \o InsertBeforeEqual(x, Tail(sorted))
RECURSIVE InsertByScore(_, _)
InsertByScore(x, sorted) ==
    IF sorted = <<>> THEN <<x>>
    ELSE IF x.score < Head(sorted).score THEN <<x>> \o sorted
    ELSE <<Head(sorted)>> \o InsertByScore(x, Tail(sorted))
RECURSIVE SortedByScore(_)
SortedByScore(xs) ==
    IF xs = <<>> THEN <<>>
    ELSE InsertByScore(xs[Len(xs)], SortedByScore(SubSeq(xs, 1, Len(xs) - 1)))

\* xs[:n]
FirstN(xs, n) == SubSeq(xs, 1, IF Len(xs) < n THEN Len(xs) ELSE n)

\* The name under which Top5ResponseEmbed shows a tournament, names being
\* sequences of words: "The " is put before a name that does not begin with "the".
TournamentName(name) ==
    IF name # <<>> /\ name[1] \in {"The", "the"} THEN name ELSE <<"The">> \o name

\* Top5ResponseEmbed.get_embed: the embed (its round and its fields; no fields
\* for round 0, and no field for a player that has not teed off).
Top5Embed(tournament_name, current_round, players_and_scores) ==
    [title |-> TournamentName(tournament_name), round |-> current_round,
     fields |-> IF current_round = 0 THEN <<>>
                ELSE SelectSeq(players_and_scores, LAMBDA x : x.through > 0)]

\* `embed.set_thumbnail(url=result_image.image.thumbnailLink)`, search being
\* what get_first_image did: of a search without result, AttributeError.
Top5WithThumbnail(embed, search) ==
    [cache |-> search.cache,
     outcome |-> IF search.outcome = "error" \/ search.ret = None THEN "error" ELSE "ok",
     embed |-> embed]

\* Top5ResponseEmbed.get_embed: the image cache afterwards, the outcome and
\* the embed.
Top5ResponseEmbed(tournament_name, current_round, players_and_scores, c, t, remote) ==
    IF ~deps.search_engine
    THEN [cache |-> c, outcome |-> "ok",
          embed |-> Top5Embed(tournament_name, current_round, players_and_scores)]
    ELSE Top5WithThumbnail(Top5Embed(tournament_name, current_round, players_and_scores),
                           GetFirst(c, TournamentName(tournament_name), t, remote))

\* The loop over the players in get_top_5_by_event.
PlayerAndScores(players, rounds, current_round) ==
    [i \in 1..Len(players) |->
        PlayerAndScore(players[i].score, players[i].fullName,
                       ThroughOf(rounds[i].ret[1], current_round))]

\* The body of the loop of get_top_5_by_event for one event, rounds being what
\* linescores_to_rounds did for each player and current what
\* get_current_round_number did.
Top5OfRound(event, rounds, current, c, t, remote) ==
    IF current.outcome = "error" THEN [cache |-> c, outcome |-> "error", embed |-> None]
    ELSE Top5ResponseEmbed(event.name, current.ret[1],
                           FirstN(SortedByScore(PlayerAndScores(event.players, rounds,
                                                                current.ret[1])), TOP_N),
                           c, t, remote)
Top5OfRounds(event, rounds, c, t, remote) ==
    IF \E i \in 1..Len(rounds) : rounds[i].outcome = "error"
    THEN [cache |-> c, outcome |-> "error", embed |-> None]
    ELSE Top5OfRound(event, rounds,
                     GetCurrentRoundNumber([i \in 1..Len(rounds) |-> rounds[i].ret[1]]),
                     c, t, remote)
Top5OfEvent(event, c, t, remote) ==
    Top5OfRounds(event,
                 [i \in 1..Len(event.players) |-> LinescoresToRounds(event.players[i].linescores)],
                 c, t, remote)

\* The loop of get_top_5_by_event over the events: first is what the body did
\* for the first event, rest what the loop did for the others.
Top5Joined(first, rest) ==
    IF rest.outcome = "error" THEN rest
    ELSE [cache |-> rest.cache, outcome |-> "ok", embeds |-> <<first.embed>> \o rest.embeds]
RECURSIVE Top5Embeds(_, _, _, _)
Top5Rest(first, events, t, remote) ==
    IF first.outcome = "error" THEN [cache |-> first.cache, outcome |-> "error", embeds |-> <<>>]
    ELSE Top5Joined(first, Top5Embeds(events, first.cache, t, remote))
Top5Embeds(events, c, t, remote) ==
    IF events = <<>> THEN [cache |-> c, outcome |-> "ok", embeds |-> <<>>]
    ELSE Top5Rest(Top5OfEvent(Head(events), c, t, remote), Tail(events), t, remote)

\* "No Tournaments are currently running!"
NoTournamentsEmbed == [title |-> <<"No", "Tournaments">>, round |-> 0, fields |-> <<>>]

\* Commands.get_top_5_by_event(guild_id): the store and the image cache
\* afterwards, the events get_current_events returned, the outcome and the
\* embeds; events is what get_current_events did and r what the loop did.
Top5Returned(events, r) ==
    [store |-> events.store, cache |-> r.cache, events |-> events.ret, outcome |-> r.outcome,
     embeds |-> IF r.outcome = "ok" /\ r.embeds = <<>> THEN <<NoTournamentsEmbed>> ELSE r.embeds]
Top5OfEvents(events, c, t, remote) ==
    IF events.outcome = "error"
    THEN [store |-> events.store, cache |-> c, events |-> <<>>, outcome |-> "error", embeds |-> <<>>]
    ELSE Top5Returned(events, Top5Embeds(events.ret, c, t, remote))
GetTop5ByEvent(st, c, t, guild_id, answer, remote, fail) ==
    Top5OfEvents(GetCurrentEvents(st, guild_id, answer, fail), c, t, remote)

\* The linescores of the players of the leaderboard inputs: no round played,
\* one round of two holes, and a second round of one hole after it.
NoRounds == <<LineScore(None, None)>>
OneRound == <<PlayedRound, LineScore(None, None)>>
TwoRounds == <<PlayedRound, LineScore(Some(70), Some(<<HoleScore(Some(3))>>))>>
LeaderOptions ==
    {[score |-> -1, linescores |-> TwoRounds], [score |-> 0, linescores |-> TwoRounds],
     [score |-> 0, linescores |-> OneRound], [score |-> -1, linescores |-> NoRounds]}

\* The players of an event get their names from their places on the scoreboard.
PlaceChars == <<"1", "2", "3", "4", "5", "6", "7", "8", "9">>
NamedByPlace(options) ==
    [i \in 1..Len(options) |->
        LeaderPlayer(<<"r", PlaceChars[i]>>, options[i].score, options[i].linescores)]

\* Four players that lead the larger events.
LeadingFour ==
    <<[score |-> 0, linescores |-> TwoRounds], [score |-> -1, linescores |-> TwoRounds],
      [score |-> 0, linescores |-> OneRound], [score |-> -1, linescores |-> TwoRounds]>>
LeaderFields ==
    {NamedByPlace(lead \o free) :
        lead \in {<<>>, LeadingFour}, free \in SeqsUpTo(LeaderOptions, MaxFree)}
LeaderEvents == {RunningEvent(<<"Open">>, FALSE, players) : players \in LeaderFields}
TheMastersEvent ==
    RunningEvent(<<"The", "Masters">>, FALSE, NamedByPlace(<<LeadingFour[2], LeadingFour[3]>>))
LeaderScoreboards ==
    {<<>>} \cup {<<event>> : event \in LeaderEvents}
           \cup {<<event, TheMastersEvent>> : event \in {RunningEvent(<<"Open">>, FALSE, NamedByPlace(LeadingFour))}}
LeaderAnswers == {None} \cup {Some(sb) : sb \in LeaderScoreboards}

\* /show_leaderboards: get_top_5_by_event(interaction.guild_id), then the
\* reply; r is what get_top_5_by_event did.
ShowLeaderboardsGot(guild_id, answer, r) ==
    /\ last = NoCall
    /\ npc # "running"
    /\ store' = r.store
    /\ cache' = [cache EXCEPT !["image"] = r.cache]
    /\ last' = [op |-> "get_top_5_by_event", guild |-> guild_id, arg |-> answer,
                events |-> r.events, outcome |-> r.outcome, ret |-> r.embeds]
    /\ UNCHANGED <<now, sent, npc, nqueue, deps, loop, addSent>>
ShowLeaderboards(guild_id, answer, remote, fail) ==
    ShowLeaderboardsGot(guild_id, answer,
                        GetTop5ByEvent(store, cache["image"], now, guild_id, answer, remote, fail))

\* `await interaction.response.send_message(embeds=embeds)`, or the error
\* handler of the command tree: the handler is over.
ShowLeaderboardsReply ==
    /\ last.op = "get_top_5_by_event"
    /\ last' = NoCall
    /\ UNCHANGED <<now, cache, store, sent, npc, nqueue, deps, loop, addSent>>

LeaderboardNext ==
    \/ \E guild_id \in {None, Some(1)}, answer \in LeaderAnswers, remote \in {<<>>, <<"a">>},
          fail \in Fails : ShowLeaderboards(guild_id, answer, remote, fail)
    \/ ShowLeaderboardsReply
    \/ /\ last = NoCall
       /\ SlashAddTrackedPlayer(1, <<"R", "1">>, "none")

LeaderboardSpec == BotInit /\ [][LeaderboardNext]_vars

\* The place of player i on the leaderboard: after the players of a lower
\* score and after those of the same score that the scoreboard lists before it.
PlaceOf(players, i) ==
    Cardinality({j \in 1..Len(players) :
                    \/ players[j].score < players[i].score
                    \/ players[j].score = players[i].score /\ j < i}) + 1
\* The holes the player has played of the round: those of the round's scorecard,
\* 0 when the player has no scorecard for the round.
HolesInRound(player, round) ==
    LET played == PlayedPositions(player.linescores, 1) IN
    IF round <= Len(played) THEN Len(player.linescores[played[round]].linescores[1]) ELSE 0
\* The leaders of the round: the first TOP_N places, or all the players when
\* there are fewer, each with its score and its holes of the round.
LeadersOf(players, round) ==
    [k \in 1..(IF Len(players) < TOP_N THEN Len(players) ELSE TOP_N) |->
        LET player == players[CHOOSE i \in 1..Len(players) : PlaceOf(players, i) = k] IN
        PlayerAndScore(player.score, player.fullName, HolesInRound(player, round))]

UPCOMING_DAYS == 30
\* The most events of a league's calendar in the inputs.
MaxCalendar == 2

\* CalenderEvent (label, startDate, endDate in days) and League (name,
\* calendar, logos).
CalenderEvent(label, startDate, endDate) ==
    [label |-> label, startDate |-> startDate, endDate |-> endDate]
League(name, calendar, logos) == [name |-> name, calendar |-> calendar, logos |-> logos]

\* `calender_event.endDate > today > calender_event.startDate`
InProgress(calender_event, today) ==
    calender_event.endDate > today /\ today > calender_event.startDate
\* `today < calender_event.startDate < today + datetime.timedelta(days=30)`
StartsWithin(calender_event, today) ==
    today < calender_event.startDate /\ calender_event.startDate < today + UPCOMING_DAYS

\* CalenderResponseEmbed.get_embed: the league of the title and the labels of
\* the fields, those in progress and those that start later.
CalenderResponseEmbed(league_name, running_events, upcoming_calender_events) ==
    [league |-> league_name,
     running |-> [i \in 1..Len(running_events) |-> running_events[i].label],
     upcoming |-> [i \in 1..Len(upcoming_calender_events) |-> upcoming_calender_events[i].label]]

\* The loop of get_upcoming_events over the leagues: current_events and
\* future_events are the lists made before the loop, which every league
\* appends to.  logos[-1] of a league without logos raises IndexError.
UpcomingJoined(embed, rest) ==
    IF rest.outcome = "error" THEN rest
    ELSE [outcome |-> "ok", embeds |-> <<embed>> \o rest.embeds]
RECURSIVE UpcomingEmbeds(_, _, _, _)
UpcomingOfLeague(league, leagues, current_events, future_events, today) ==
    IF league.logos = <<>> THEN [outcome |-> "error", embeds |-> <<>>]
    ELSE UpcomingJoined(CalenderResponseEmbed(league.name, current_events, future_events),
                        UpcomingEmbeds(leagues, current_events, future_events, today))
UpcomingEmbeds(leagues, current_events, future_events, today) ==
    IF leagues = <<>> THEN [outcome |-> "ok", embeds |-> <<>>]
    ELSE UpcomingOfLeague(
            Head(leagues), Tail(leagues),
            current_events \o SelectSeq(Head(leagues).calendar,
                                        LAMBDA e : InProgress(e, today)),
            future_events \o SelectSeq(Head(leagues).calendar,
                                       LAMBDA e : ~InProgress(e, today) /\ StartsWithin(e, today)),
            today)

\* Commands.get_upcoming_events at time today; answer is the leagues of the
\* scoreboard, or None when the request fails.
GetUpcomingEvents(answer, today) ==
    IF answer = None THEN [outcome |-> "error", embeds |-> <<>>]
    ELSE UpcomingEmbeds(answer[1], <<>>, <<>>, today)

\* The calendars of two leagues.
TourCalendar ==
    {CalenderEvent("t1", 3, 7), CalenderEvent("t2", 12, 16), CalenderEvent("t3", 30, 34)}
OtherCalendar == {CalenderEvent("o1", 4, 8), CalenderEvent("o2", 45, 50)}
LeagueAnswers ==
    {None, Some(<<>>), Some(<<League("Tour", <<CalenderEvent("t1", 3, 7)>>, <<>>)>>)}
    \cup {Some(<<League("Tour", calendar, <<"logo">>)>>) :
            calendar \in SeqsUpTo(TourCalendar, MaxCalendar)}
    \cup {Some(<<League("Tour", calendar, <<"logo">>), League("Other", other, <<"logo">>)>>) :
            calendar \in SeqsUpTo(TourCalendar, MaxCalendar),
            other \in SeqsUpTo(OtherCalendar, MaxCalendar)}

\* /show_upcoming_events: get_upcoming_events(), then the reply.
ShowUpcomingEvents(answer) ==
    /\ last = NoCall
    /\ last' = [op |-> "get_upcoming_events", arg |-> answer,
                outcome |-> GetUpcomingEvents(answer, now).outcome,
                ret |-> GetUpcomingEvents(answer, now).embeds]
    /\ UNCHANGED <<now, cache, store, sent, npc, nqueue, deps, loop, addSent>>

\* `await interaction.response.send_message(embeds=embeds)`, or the error
\* handler of the command tree.
ShowUpcomingEventsReply ==
    /\ last.op = "get_upcoming_events"
    /\ last' = NoCall
    /\ UNCHANGED <<now, cache, store, sent, npc, nqueue, deps, loop, addSent>>

CalendarNext ==
    \/ \E answer \in LeagueAnswers : ShowUpcomingEvents(answer)
    \/ ShowUpcomingEventsReply
    \/ Tick

CalendarSpec == Init /\ [][CalendarNext]_vars

\* The labels of the events of calendar that satisfy Test.
LabelsOf(calendar, Test(_)) ==
    LET events == SelectSeq(calendar, Test) IN [i \in 1..Len(events) |-> events[i].label]

\* C18: get_upcoming_events returns one embed per league, in which only events
\* of that league's calendar are listed: as in progress those with
\* startDate < now < endDate, as upcoming those with now < startDate < now + 30
\* days; no event is in both groups and no event of another league is listed.
C18_OwnCalendarOnly ==
    (last.op = "get_upcoming_events" /\ last.outcome = "ok") =>
        LET leagues == last.arg[1] IN
        /\ Len(last.ret) = Len(leagues)
        /\ \A i \in 1..Len(leagues) :
              /\ last.ret[i].league = leagues[i].name
              /\ last.ret[i].running =
                    LabelsOf(leagues[i].calendar,
                             LAMBDA e : e.startDate < now /\ now < e.endDate)
              /\ last.ret[i].upcoming =
                    LabelsOf(leagues[i].calendar,
                             LAMBDA e : now < e.startDate /\ e.startDate < now + UPCOMING_DAYS)
              /\ Range(last.ret[i].running) \cap Range(last.ret[i].upcoming) = {}

(***************************************************************************)
(* bot.py: the winners                                                     *)
(***************************************************************************)
\* A second completed event, and the scoreboards and searches with it.
PlayersFinished == RunningEvent("Players", TRUE, <<Br(-1), Ro(2)>>)
WinnerScoreboards == Scoreboards \cup {<<OpenEvent, MastersEvent, PlayersFinished>>}
WinnerScoreboardAnswers == {None} \cup {Some(sb) : sb \in WinnerScoreboards}
WinnerRemoteAnswers ==
    [{WinnerQuery(<<"R", "o">>, "Open"), WinnerQuery(<<"B", "r">>, "Players")} -> RemoteItems]

\* A caller of Commands.get_winners (the notifications task, test_get_winner);
\* events is what its get_current_events did and w what get_winners did.
WinnersGot(guild_id, answer, remote, events, w) ==
    /\ last = NoCall
    /\ npc # "running"
    /\ store' = w.store
    /\ cache' = [cache EXCEPT !["text"] = w.cache]
    /\ last' = [op |-> "get_winners", guild |-> guild_id, arg |-> answer, remote |-> remote,
                read |-> events.outcome, events |-> events.ret,
                outcome |-> w.outcome, ret |-> w.embeds]
    /\ UNCHANGED <<now, sent, npc, nqueue, deps, loop, addSent>>
Winners(guild_id, answer, remote, fail) ==
    WinnersGot(guild_id, answer, remote,
               GetCurrentEvents(store, guild_id, answer, fail),
               GetWinners(store, cache["text"], now, guild_id, answer, remote, fail))

\* The caller goes on with the embeds, or with the error.
WinnersReturn ==
    /\ last.op = "get_winners"
    /\ last' = NoCall
    /\ UNCHANGED <<now, cache, store, sent, npc, nqueue, deps, loop, addSent>>

WinnersNext ==
    \/ \E guild_id \in {None, Some(1)}, answer \in WinnerScoreboardAnswers,
          remote \in WinnerRemoteAnswers, fail \in Fails : Winners(guild_id, answer, remote, fail)
    \/ WinnersReturn
    \/ /\ last = NoCall
       /\ SlashAddTrackedPlayer(1, <<"r", "o">>, "none")

WinnersSpec == BotInit /\ [][WinnersNext]_vars

\* C16: with a search engine, get_winners returns one winner embed for each
\* completed event of the events get_current_events gave it, in their
\* order, and none for the others; for an event whose search gave no result
\* (nothing cached, nothing found) the embed has an empty snippet, the first
\* link of the event and the placeholder image, and no error is raised.
C16_OneEmbedPerCompletedEvent ==
    (last.op = "get_winners" /\ last.read = "ok" /\ deps.search_engine) =>
        LET completed == SelectSeq(last.events, LAMBDA e : e.completed) IN
        /\ last.outcome = "ok"
        /\ Len(last.ret) = Len(completed)
        /\ \A k \in 1..Len(completed) :
              LET event == completed[k]
                  winner == event.players[1]
                  q == WinnerQuery(winner.fullName, event.name) IN
              /\ last.ret[k].title =
                    WinnerTitle(winner.fullName, event.name,
                                event.players[2].score - winner.score)
              /\ (q \notin DOMAIN cache["text"] /\ last.remote[q] = <<>>) =>
                    /\ last.ret[k].description = ""
                    /\ last.ret[k].url = EventLink(event)
                    /\ last.ret[k].image = Some(PLACEHOLDER_THUMBNAIL)

(***************************************************************************)
(* search.py, bot.py: the remote calls                                     *)
(***************************************************************************)
\* What a request to the remote search can do: fail (None: requests.get, .json()
\* or the validation of the response raises) or answer the items of a response.
SearchAnswers == {None} \cup {Some(items) : items \in RemoteItems}

\* Search.get_first_web_result / Search.get_first_image at time t, the request
\* doing what answer says: the cache afterwards, the number of requests made,
\* the outcome and the value returned; looked is what get_from_cache did.
\* (GetFirstRetrying: the faulty variant that asks again after a failure.)
GetFirstRetrying(looked, key, t, answer) ==
    IF looked.ret # None
    THEN [cache |-> GetFirst(looked.cache, key, t, <<>>).cache, requests |-> 0,
          outcome |-> GetFirst(looked.cache, key, t, <<>>).outcome,
          ret |-> GetFirst(looked.cache, key, t, <<>>).ret]
    ELSE IF answer = None
         THEN [cache |-> looked.cache, requests |-> 2, outcome |-> "error", ret |-> None]
         ELSE [cache |-> GetFirst(looked.cache, key, t, answer[1]).cache, requests |-> 1,
               outcome |-> GetFirst(looked.cache, key, t, answer[1]).outcome,
               ret |-> GetFirst(looked.cache, key, t, answer[1]).ret]
GetFirstLooked(looked, key, t, answer) ==
    IF looked.ret # None
    THEN [cache |-> GetFirst(looked.cache, key, t, <<>>).cache, requests |-> 0,
          outcome |-> GetFirst(looked.cache, key, t, <<>>).outcome,
          ret |-> GetFirst(looked.cache, key, t, <<>>).ret]
    ELSE IF answer = None
         THEN [cache |-> looked.cache, requests |-> 1, outcome |-> "error", ret |-> None]
         ELSE [cache |-> GetFirst(looked.cache, key, t, answer[1]).cache, requests |-> 1,
               outcome |-> GetFirst(looked.cache, key, t, answer[1]).outcome,
               ret |-> GetFirst(looked.cache, key, t, answer[1]).ret]
GetFirstRequest(c, key, t, answer) == GetFirstLooked(GetFromCache(c, key, t), key, t, answer)

\* EspnScoreboardAPI.get_scoreboard, the request doing what answer says.
GetScoreboard(answer) ==
    [requests |-> 1, outcome |-> IF answer = None THEN "error" ELSE "ok", ret |-> answer]

\* A caller of get_first_web_result / get_first_image; r is what the call did.
SearchRequestGot(kind, key, answer, r) ==
    /\ last = NoCall
    /\ cache' = [cache EXCEPT ![kind] = r.cache]
    /\ last' = [op |-> IF kind = "text" THEN "get_first_web_result" ELSE "get_first_image",
                kind |-> kind, key |-> key, arg |-> answer, requests |-> r.requests,
                outcome |-> r.outcome, ret |-> r.ret]
    /\ UNCHANGED <<now, store, sent, npc, nqueue, deps, loop, addSent>>
SearchRequest(kind, key, answer) ==
    SearchRequestGot(kind, key, answer, GetFirstRequest(cache[kind], key, now, answer))

\* A caller of get_scoreboard.
ScoreboardRequest(answer) ==
    /\ last = NoCall
    /\ last' = [op |-> "get_scoreboard", arg |-> answer, requests |-> GetScoreboard(answer).requests,
                outcome |-> GetScoreboard(answer).outcome, ret |-> GetScoreboard(answer).ret]
    /\ UNCHANGED <<now, cache, store, sent, npc, nqueue, deps, loop, addSent>>

\* The caller goes on with what the call returned, or with the error.
RemoteReturn ==
    /\ last.op \in {"get_first_web_result", "get_first_image", "get_scoreboard", "get_current_events"}
    /\ last' = NoCall
    /\ UNCHANGED <<now, cache, store, sent, npc, nqueue, deps, loop, addSent>>

RemoteNext ==
    \/ \E kind \in Kinds, key \in Keys, answer \in SearchAnswers : SearchRequest(kind, key, answer)
    \/ \E answer \in ScoreboardAnswers : ScoreboardRequest(answer)
    \/ \E guild_id \in {None, Some(1)}, answer \in ScoreboardAnswers, fail \in Fails :
          /\ last = NoCall
          /\ CurrentEvents(guild_id, answer, fail)
    \/ RemoteReturn
    \/ Tick

RemoteSpec == Init /\ [][RemoteNext]_vars

\* C13: a call whose request to the remote search or to the scoreboard fails
\* has made exactly one request, ends in an error for its caller, and leaves
\* the search cache and the guild configurations as they were.
C13_Step ==
    last = NoCall =>
        /\ (/\ last'.op \in {"get_first_web_result", "get_first_image"}
            /\ last'.requests > 0
            /\ last'.arg = None)
           => /\ last'.requests = 1
              /\ last'.outcome = "error"
              /\ cache' = cache
              /\ store' = store
        /\ (last'.op = "get_scoreboard" /\ last'.arg = None)
           => /\ last'.requests = 1
              /\ last'.outcome = "error"
              /\ cache' = cache
              /\ store' = store
        /\ (last'.op = "get_current_events" /\ last'.arg = None)
           => /\ last'.outcome = "error"
              /\ cache' = cache
              /\ store' = store
C13_FailedRequestChangesNothing == [][C13_Step]_vars

\* A search whose only request has failed, with an entry in its cache that
\* has expired and another that has not.
C13_Witness ==
    /\ last.op = "get_first_web_result"
    /\ last.arg = None
    /\ last.requests = 1
    /\ last.outcome = "error"
    /\ last.key \in DOMAIN cache["text"]
    /\ DOMAIN cache["text"] = Keys

(***************************************************************************)
(* bot.py: the notifications task and the test guild                       *)
(***************************************************************************)
\* The guilds of the store when the test guild's document is in the backend.
NotifiedGuildIds == GuildIds \cup {TEST_GUILD_ID}

ReservedInit ==
    /\ now = ImportTs
    /\ cache = [kind \in Kinds |-> EmptyDict]
    /\ store = [g \in NotifiedGuildIds |-> None]
    /\ last = NoCall
    /\ sent = <<>>
    /\ npc = "idle"
    /\ nqueue = <<>>
    /\ deps = [backend |-> TRUE, search_engine |-> TRUE]
    /\ addSent = {}
    /\ loop = LoopIdle

\* The notifications task beside the slash commands, the test guild among the
\* guilds.
ReservedNext ==
    \/ \E g \in GuildIds : SlashAddTrackedPlayer(g, <<"r", "o">>, "none")
    \/ \E g \in NotifiedGuildIds, ch \in Channels : SlashEnableNotifications(g, ch, "none")
    \/ \E fail \in Fails : NotificationsStart(fail)
    \/ \E answer \in ScoreboardAnswers, remote \in RemoteAnswers, fail \in Fails :
          NotificationsGuild(answer, remote, fail)
    \/ NotificationsResume

ReservedSpec == ReservedInit /\ [][ReservedNext]_vars

\* The guilds whose stored configuration has notifications enabled.
EnabledGuilds(st) == {g \in DOMAIN st : st[g] # None /\ st[g][1].notifications_enabled}

\* A run starts: get_guilds_with_notifications returns exactly the stored
\* configurations that have notifications enabled, each once.
C14_StartStep ==
    (npc = "idle" /\ last'.op = "notifications" /\ last'.outcome = "ok" /\ last'.guild = None) =>
        /\ {nqueue'[i].guild_id : i \in 1..Len(nqueue')} = EnabledGuilds(store)
        /\ Len(nqueue') = Cardinality(EnabledGuilds(store))
        /\ \A i \in 1..Len(nqueue') : nqueue'[i] = store[nqueue'[i].guild_id][1]

\* A message is sent: to a guild the run read as enabled, which is not the
\* test guild, to the channel its configuration named when the run read it,
\* and with something new to report.
C14_SendStep ==
    sent' # sent =>
        /\ npc = "running"
        /\ nqueue # <<>>
        /\ sent' = Append(sent, sent'[Len(sent')])
        /\ LET guild_config == Head(nqueue)
               message == sent'[Len(sent')] IN
           /\ message.guild = guild_config.guild_id
           /\ message.guild # TEST_GUILD_ID
           /\ guild_config.notifications_enabled
           /\ message.guild \in EnabledGuilds(store)
           /\ message.channel # None
           /\ message.channel = guild_config.notification_channel
           /\ message.titles # <<>>
           /\ \A i \in 1..Len(message.titles) :
                 message.titles[i] \notin Range(ConfigOf(store, message.guild).event_notifications)

\* A guild with nothing new to report, and the test guild, get no message.
C14_NothingNewStep ==
    (/\ npc = "running"
     /\ last'.op = "notifications"
     /\ last'.outcome = "ok"
     /\ last'.ret = <<>>) => sent' = sent

\* A failure ends the run: the guilds that remain are not processed, and the
\* task sends nothing any more.
C14_FailureStep ==
    /\ (npc \in {"idle", "running"} /\ last'.op = "notifications" /\ last'.outcome = "error") =>
          /\ npc' = "failed"
          /\ nqueue' = <<>>
          /\ sent' = sent
    /\ npc = "failed" => (npc' = "failed" /\ nqueue' = <<>> /\ sent' = sent)

\* A failure for one guild leaves the run to go on with the guilds that remain.
C14_GoesOnStep ==
    (/\ npc = "running"
     /\ last'.op = "notifications"
     /\ last'.outcome = "error"
     /\ \E i \in 2..Len(nqueue) : nqueue[i].guild_id # TEST_GUILD_ID) =>
        /\ nqueue' = Tail(nqueue)
        /\ npc' = "running"

\* C14 (as stated): in a run of the notifications task messages go only to
\* guilds whose stored configuration has notifications enabled, which
\* get_guilds_with_notifications returns exactly, each to its configured
\* channel, never to the test guild 12345, and never with nothing new; and a
\* failure while one guild is processed does not keep the remaining enabled
\* guilds from being processed in that run.
C14_FailureSparesTheOthers ==
    [][C14_StartStep /\ C14_SendStep /\ C14_NothingNewStep /\ C14_GoesOnStep]_vars

\* C14 (amended): the same, but a failure while one guild is processed ends
\* the run, the remaining guilds are not processed, and the channel is the
\* one the guild's configuration named when the run read the guilds.
C14_OnlyEnabledGuildsUntilAFailure ==
    [][C14_StartStep /\ C14_SendStep /\ C14_NothingNewStep /\ C14_FailureStep]_vars

\* A run over the three guilds, all enabled, has sent its message to the
\* first guild, has passed the test guild and is at the last guild.
C14_Witness ==
    /\ npc = "running"
    /\ Len(nqueue) = 1
    /\ nqueue[1].guild_id = 2
    /\ EnabledGuilds(store) = NotifiedGuildIds
    /\ sent # <<>>
    /\ sent[Len(sent)].guild = 1
    /\ last.op = "notifications"
    /\ last.guild = Some(TEST_GUILD_ID)

(***************************************************************************)
(* bot.py: the handlers on the event loop                                  *)
(***************************************************************************)
\* The event loop runs one coroutine at a time and takes another only when
\* the one that runs has reached an await or has ended: a handler may take a
\* step when no coroutine runs or when it is the one that runs.
\* (MayRunInParallel: the faulty variant in which the handlers run in parallel.)
MayRunInParallel(id) == TRUE
MayRun(id) == loop.running = None \/ loop.running = Some(id)

\* A handler is between the start of a synchronous stretch and its next await.
Suspended == {"idle", "await", "failed"}

\* The handler id goes to task; the loop is released when it is suspended.
Goes(id, task) ==
    loop' = [running |-> IF task.pc \in Suspended THEN None ELSE Some(id),
             task |-> [loop.task EXCEPT ![id] = task]]

\* f"site:en.wikipedia.org {player_name} golf"
ProfileQuery(player_name) == <<"site:en.wikipedia.org", player_name, "golf">>
\* What the scoreboard answers to the notifications task.
LoopScoreboard == Some(<<OpenEvent, MastersEvent>>)

\* /add_tracked_player begins: BackendStore.add_tracked_player reads the
\* guild's configuration (add_or_get_guild_config).
AddRead(g, name) ==
    /\ MayRun("add")
    /\ loop.task["add"].pc = "idle"
    /\ store' = AddOrGetGuildConfig(store, g, "none").store
    /\ Goes("add", [pc |-> "read", guild |-> g, arg |-> Some(name),
                    local |-> AddOrGetGuildConfig(store, g, "none").ret])
    /\ UNCHANGED <<now, cache, last, sent, npc, nqueue, deps, addSent>>

\* ... and writes the configuration it has read, with the name appended, when
\* the name is not in it; the handler then awaits the sending of its reply.
AddWritten(task, written) ==
    /\ MayRun("add")
    /\ task.pc = "read"
    /\ store' = IF written = task.local THEN store ELSE [store EXCEPT ![task.guild] = written]
    /\ Goes("add", [task EXCEPT !.pc = "await"])
    /\ UNCHANGED <<now, cache, last, sent, npc, nqueue, deps, addSent>>
AddWrite ==
    AddWritten(loop.task["add"],
               AddTrackedPlayer([store EXCEPT ![loop.task["add"].guild] = loop.task["add"].local],
                                loop.task["add"].guild, loop.task["add"].arg[1], "none").ret)

\* /enable_notifications begins: BackendStore.enable_notifications reads the
\* guild's configuration.
EnableRead(g, ch) ==
    /\ MayRun("enable")
    /\ loop.task["enable"].pc = "idle"
    /\ store' = AddOrGetGuildConfig(store, g, "none").store
    /\ Goes("enable", [pc |-> "read", guild |-> g, arg |-> Some(ch),
                       local |-> AddOrGetGuildConfig(store, g, "none").ret])
    /\ UNCHANGED <<now, cache, last, sent, npc, nqueue, deps, addSent>>

\* ... and writes the configuration it has read, enabled and with the channel.
EnableWritten(task, written) ==
    /\ MayRun("enable")
    /\ task.pc = "read"
    /\ store' = [store EXCEPT ![task.guild] = written]
    /\ Goes("enable", [task EXCEPT !.pc = "await"])
    /\ UNCHANGED <<now, cache, last, sent, npc, nqueue, deps, addSent>>
EnableWrite ==
    EnableWritten(loop.task["enable"],
                  EnableNotifications([store EXCEPT ![loop.task["enable"].guild] =
                                                        loop.task["enable"].local],
                                      loop.task["enable"].guild, loop.task["enable"].arg[1],
                                      "none").ret)

\* /get_player_profile begins: get_first_web_result looks in the text cache.
ProfileLookup(player_name) ==
    /\ MayRun("profile")
    /\ loop.task["profile"].pc = "idle"
    /\ Goes("profile",
            [pc |-> IF GetFromCache(cache["text"], ProfileQuery(player_name), now).ret # None
                    THEN "await" ELSE "fetch",
             guild |-> 0, arg |-> Some(ProfileQuery(player_name)), local |-> None])
    /\ UNCHANGED <<now, cache, store, last, sent, npc, nqueue, deps, addSent>>

\* ... asks the remote search (requests.get does not yield) and stores the
\* response when it has items.
SearchFetch(id, remote, next) ==
    /\ MayRun(id)
    /\ loop.task[id].pc = "fetch"
    /\ cache' = IF remote = <<>> THEN cache
                ELSE [cache EXCEPT !["text"] =
                        AddToCache(@, loop.task[id].arg[1], CachedSearchDefault(remote, now))]
    /\ Goes(id, [loop.task[id] EXCEPT !.pc = next])
    /\ UNCHANGED <<now, store, last, sent, npc, nqueue, deps, addSent>>
ProfileFetch(remote) == SearchFetch("profile", remote, "await")

\* `await interaction.response.send_message(...)` has completed: the handler
\* of the slash command is over.
Reply(id) ==
    /\ id \in {"add", "enable", "profile"}
    /\ MayRun(id)
    /\ loop.task[id].pc = "await"
    /\ Goes(id, IdleTask)
    /\ UNCHANGED <<now, cache, store, last, sent, npc, nqueue, deps, addSent>>

\* A run of the notifications task begins: the guilds to notify are read.
NotifyStart ==
    /\ MayRun("notify")
    /\ loop.task["notify"].pc = "idle"
    /\ Goes("notify",
            [pc |-> IF GuildsWithNotifications(store, DOMAIN store) = <<>> THEN "idle" ELSE "events",
             guild |-> 0, arg |-> None,
             local |-> GuildsWithNotifications(store, DOMAIN store)])
    /\ UNCHANGED <<now, cache, store, last, sent, npc, nqueue, deps, addSent>>

\* The task goes on to the guild after the first of guilds, or ends the run.
NextGuild(task) ==
    [task EXCEPT !.pc = IF Tail(task.local) = <<>> THEN "idle" ELSE "events",
                 !.arg = None, !.local = Tail(task.local)]

\* get_winners for the next guild begins: get_current_events reads the
\* scoreboard and the guild's configuration; with a completed event among the
\* guild's events, the search for its winner follows.
NotifyEventsRead(task, events) ==
    /\ MayRun("notify")
    /\ task.pc = "events"
    /\ store' = events.store
    /\ Goes("notify",
            IF \E i \in 1..Len(events.ret) : events.ret[i].completed
            THEN [task EXCEPT !.pc = "lookup", !.guild = Head(task.local).guild_id,
                              !.arg = Some(WinnerQuery(<<"R", "o">>, "Open"))]
            ELSE NextGuild(task))
    /\ UNCHANGED <<now, cache, last, sent, npc, nqueue, deps, addSent>>
NotifyEvents ==
    NotifyEventsRead(loop.task["notify"],
                     GetCurrentEvents(store, Some(Head(loop.task["notify"].local).guild_id),
                                      LoopScoreboard, "none"))

\* get_first_web_result looks in the text cache.
NotifyLookup ==
    /\ MayRun("notify")
    /\ loop.task["notify"].pc = "lookup"
    /\ Goes("notify",
            [loop.task["notify"] EXCEPT
                !.pc = IF GetFromCache(cache["text"], loop.task["notify"].arg[1], now).ret # None
                       THEN "send" ELSE "fetch"])
    /\ UNCHANGED <<now, cache, store, last, sent, npc, nqueue, deps, addSent>>

\* ... and asks the remote search; without a result get_winners raises and
\* the task ends for good.
NotifyFetch(remote) == SearchFetch("notify", remote, IF remote = <<>> THEN "failed" ELSE "send")

\* _check_embeds_need_notifications finds the winner's title not recorded,
\* and the task awaits `notification_channel.send(...)`.
NotifySend ==
    /\ MayRun("notify")
    /\ loop.task["notify"].pc = "send"
    /\ Len(sent) < MaxSent
    /\ GetNotification(store, loop.task["notify"].guild,
                       WinnerTitle(<<"R", "o">>, "Open", 6), "none").ret = None
    /\ sent' = Append(sent, [guild |-> loop.task["notify"].guild,
                             channel |-> Head(loop.task["notify"].local).notification_channel,
                             titles |-> <<WinnerTitle(<<"R", "o">>, "Open", 6)>>])
    /\ Goes("notify", [loop.task["notify"] EXCEPT !.pc = "await"])
    /\ UNCHANGED <<now, cache, store, last, npc, nqueue, deps, addSent>>

\* The send has completed: the loop of the task goes on.
NotifyResume ==
    /\ MayRun("notify")
    /\ loop.task["notify"].pc = "await"
    /\ Goes("notify", NextGuild(loop.task["notify"]))
    /\ UNCHANGED <<now, cache, store, last, sent, npc, nqueue, deps, addSent>>

LoopNext ==
    \/ \E g \in GuildIds : AddRead(g, <<"r", "o">>)
    \/ AddWrite
    \/ \E g \in GuildIds, ch \in Channels : EnableRead(g, ch)
    \/ EnableWrite
    \/ ProfileLookup(<<"R", "o">>)
    \/ \E remote \in {<<>>, <<"a">>} : ProfileFetch(remote)
    \/ \E id \in {"add", "enable", "profile"} : Reply(id)
    \/ NotifyStart
    \/ NotifyEvents
    \/ NotifyLookup
    \/ \E remote \in {<<>>, <<"a">>} : NotifyFetch(remote)
    \/ NotifySend
    \/ NotifyResume

LoopSpec == Init /\ [][LoopNext]_vars

\* The handlers that are inside a synchronous stretch of their code.
MidOperation == {id \in TaskIds : loop.task[id].pc \notin Suspended}

\* No two handlers are inside an operation at once.
C15_OneAtATime == Cardinality(MidOperation) <= 1

\* What a handler wrote before its await is in the store while it awaits.
C15_UpdatesKept ==
    /\ loop.task["add"].pc = "await" =>
          /\ store[loop.task["add"].guild] # None
          /\ loop.task["add"].arg[1] \in Range(store[loop.task["add"].guild][1].track_players)
    /\ loop.task["enable"].pc = "await" =>
          /\ store[loop.task["enable"].guild] # None
          /\ store[loop.task["enable"].guild][1].notifications_enabled
          /\ store[loop.task["enable"].guild][1].notification_channel = loop.task["enable"].arg

\* A write goes over the very document that was read, a fetch follows a miss
\* that is still a miss, and no step removes an entry of the cache or a name
\* of a guild's tracked players.
C15_Step ==
    /\ \A id \in {"add", "enable"} :
          loop.task[id].pc = "read" /\ loop'.task[id].pc = "await" =>
             store[loop.task[id].guild] = loop.task[id].local
    /\ \A id \in {"profile", "notify"} :
          loop.task[id].pc = "fetch" /\ loop'.task[id].pc # "fetch" =>
             GetFromCache(cache["text"], loop.task[id].arg[1], now).ret = None
    /\ \A key \in DOMAIN cache["text"] : key \in DOMAIN cache'["text"]
    /\ \A g \in GuildIds :
          store[g] # None =>
             /\ store'[g] # None
             /\ Range(store[g][1].track_players) \subseteq Range(store'[g][1].track_players)

\* C15: under every interleaving of the notifications task with the handlers
\* of the slash commands that the event loop allows (a switch only at an
\* await), no cache lookup or lookup, fetch and store overlaps another
\* operation on the cache, and no read, modify and write of a guild's
\* configuration overlaps another: no stored cache entry and no update of a
\* configuration is lost.
C15_NoOverlapNoLostUpdate ==
    /\ [](C15_OneAtATime /\ C15_UpdatesKept)
    /\ [][C15_Step]_vars

\* The handler of /add_tracked_player awaits its reply after writing guild 1,
\* the notifications task awaits its send and the profile handler its reply,
\* while the handler of /enable_notifications is between its read and its
\* write of guild 1.
C15_Witness ==
    /\ loop.task["add"].pc = "await" /\ loop.task["add"].guild = 1
    /\ loop.task["notify"].pc = "await"
    /\ loop.task["profile"].pc = "await"
    /\ loop.task["enable"].pc = "read" /\ loop.task["enable"].guild = 1
    /\ loop.task["enable"].local # None
    /\ <<"r", "o">> \in Range(loop.task["enable"].local[1].track_players)

====
